---------------------------- MODULE Spec2Model ----------------------------
(***************************************************************************)
(* Model of the Pico firmware switcher (package pico_switcher, driven by   *)
(* pico_cli.main).  One behaviour is a series of CLI invocations; each     *)
(* invocation runs `detect`, `to-py` or `to-cpp` to completion.  The host  *)
(* (lsblk, mount, the serial line, mpremote, the file system) answers each *)
(* call nondeterministically with one of the outcomes the call can have.   *)
(*                                                                         *)
(* Time is a discrete clock `now`, read relative to the entry of the wait  *)
(* loop that is running.  One serial readline (timeout=0.1) takes a tick,  *)
(* one sleep of a poll loop (time.sleep(0.2)) two; every deadline is       *)
(* `now + timeout` taken once on loop entry.  A timeout argument is read   *)
(* only there, so the model draws its value where it is read instead of    *)
(* carrying it in the request.  Locals of a function that has returned or  *)
(* raised are cleared.                                                     *)
(***************************************************************************)
EXTENDS Integers, Sequences, FiniteSets

(* ------------------------------ bounds -------------------------------- *)
\* Largest detection timeout (in ticks) a request may carry.
MaxTimeout == 2
\* Largest bootloader-volume or serial-port wait (in ticks) a request may
\* carry.
MaxWait == 4
\* Longest raw serial line (in tokens).
MaxLineLen == 2

(* --------------------------- program constants ------------------------ *)
\* detect_timeout = max(args.detect_timeout, 2.0) for the post-switch detect.
PostDetectMin == 2
\* DEFAULT_HELPER_FILES holds two paths.
NumHelpers == 2
\* time.sleep(0.2) of a poll loop, in ticks of the clock (one tick is the
\* 0.1 s a readline waits).
PollInterval == 2

None == "none"

ModeChoices == {"auto", "py", "cpp", "bootsel"}
Commands == {"detect", "to-py", "to-cpp"}
Timeouts == 0..MaxTimeout
\* --bootsel-timeout and --serial-wait are floats: negative, zero or positive.
WaitTimeouts == -1..MaxWait

(* ------------------------------ serial text --------------------------- *)
\* A raw line is a short sequence of tokens: "P" stands for the substring
\* FW:PY, "C" for FW:CPP, "x" for any other printable text and " " for
\* whitespace.  The empty sequence is readline() returning b"" on timeout.
Tokens == {"P", "C", "x", " "}
RawLines == UNION {[1..n -> Tokens] : n \in 0..MaxLineLen}

RECURSIVE LStrip(_)
LStrip(s) == IF s # <<>> /\ Head(s) = " " THEN LStrip(Tail(s)) ELSE s

RECURSIVE RStrip(_)
RStrip(s) ==
    IF s # <<>> /\ s[Len(s)] = " " THEN RStrip(SubSeq(s, 1, Len(s) - 1)) ELSE s

\* raw.decode(errors="ignore").strip()
Strip(s) == RStrip(LStrip(s))

Range(seq) == {seq[i] : i \in 1..Len(seq)}

\* `marker in line`
Contains(line, tok) == \E i \in 1..Len(line) : line[i] = tok

\* The markers a raw line holds.
Markers(raw) == {tok \in {"P", "C"} : Contains(raw, tok)}

\* read_banner 197-200, faulty variant: a marker counts only at the start
\* of the line.
BannerModeAtStart(line) ==
    IF line # <<>> /\ Head(line) = "P" THEN "py"
    ELSE IF line # <<>> /\ Head(line) = "C" THEN "cpp"
    ELSE None

\* read_banner 197-200: the two marker tests, in the order the code makes
\* them.
BannerMode(line) ==
    IF Contains(line, "P") THEN "py"
    ELSE IF Contains(line, "C") THEN "cpp"
    ELSE None

(* ------------------------------- host answers ------------------------- *)
\* lsblk: no RPI-RP2 entry, an entry with or without a mountpoint, a nonzero
\* exit (RuntimeError), or the command cannot be started (OSError).
LsblkOutcomes == {"absent", "mounted", "unmounted", "nonzero", "norun"}
\* mkdir + mount: exit 0, nonzero exit (RuntimeError), or an OSError.
MountOutcomes == {"ok", "nonzero", "oserror"}
\* mpremote: exit 0, nonzero exit, or the command cannot be started.
BridgeOutcomes == {"zero", "nonzero", "norun"}
\* captured stderr/stdout text of a failed mpremote: some text, or nothing.
BridgeTexts == {"text", ""}

(* ------------------------------- state -------------------------------- *)
VARIABLES
    req,            \* the parsed arguments of the running invocation
    pc,             \* position of the invocation
    caller,         \* who called detect_mode: "main", "switch", "safe"
    selected_mode,  \* switch_firmware: resolved current mode
    trigger_error,  \* switch_firmware: text returned by _trigger_bootsel
    mountpoint,     \* switch_firmware: result of wait_for_bootsel_mount
    now,            \* time.time(), counted from the entry of the wait loop
    deadline,       \* deadline of the running wait loop
    last_error,     \* wait_for_bootsel_mount: last_error
    last_line,      \* read_banner: last_line
    ser_open,       \* a serial.Serial object is open
    helper_idx,     \* install_micropython_helpers: next file to copy
    flashed,        \* value returned by switch_firmware; None before
    detected,       \* value returned by detect_mode; "pending" before
    call_site,      \* which call of _install_helpers_if_requested runs
    failure,        \* the exception that ended the invocation
    exit_code,      \* exit code of main, meaningful once pc = "exit"
    message,        \* what main printed about the switch
    steps,          \* orchestrator steps entered, in order
    fx,             \* side effects of this invocation, counted
    serial_writes,  \* lengths of the byte strings written to the port
    det,            \* what the running (or last) detect_mode call was
                    \* answered and what it returned
    trigger_exit,   \* how the mpremote run of trigger_from_py ended
    prev,           \* target of the previous invocation if it was a forced
                    \* reflash of the mode already active, else None; kept
                    \* past the short-circuit test only by a run that asks
                    \* for that mode again without force_flash
    uf2_written,    \* destinations copy_uf2 wrote the image to
    helper_log,     \* what helper provisioning did, in order
    ensure,         \* the last ensure_rpi_rp2_mounted call of the wait
    wait,           \* the wait_for_bootsel_mount call of this invocation
    in_buffer,      \* lines in the input buffer of the open serial port
    scan,           \* the read_banner call that runs or has just returned
    mp_call         \* one run_mpremote call, judged on its own

vars == <<req, pc, caller, selected_mode, trigger_error, mountpoint, now,
          deadline, last_error, last_line, ser_open, helper_idx, flashed,
          detected, call_site, failure, exit_code, message, steps, fx,
          serial_writes, det, trigger_exit, prev, uf2_written, helper_log,
          ensure, wait, in_buffer, scan, mp_call>>

NoFailure == [exc |-> None, msg |-> None, detail |-> None, at |-> None]

NoEffects ==
    [detect_locate |-> 0, banner_open |-> 0, probe_exec |-> 0,
     trigger_exec |-> 0, trigger_open |-> 0, poll |-> 0, mkdir |-> 0,
     mount |-> 0, copy |-> 0, sync |-> 0, helper_cp |-> 0]

\* Record of one detect_mode call: the answer of lsblk, how far the banner
\* read got ("unset" before it starts, then "open" or "failed", then
\* "matched", "nomatch" or, for a readline that raised, "broken"), the
\* markers held by the raw line that ended the banner scan, whether any raw
\* line read held the native marker, the exit of the probe, and the value
\* returned (if it returned).
NoDetect ==
    [rp2 |-> "unset", banner |-> "unset", matched |-> {}, native |-> FALSE,
     probe |-> "unset", returned |-> FALSE, result |-> None]

\* Record of one ensure_rpi_rp2_mounted call: the answer of lsblk, the
\* device name of the entry found, whether the fallback directory existed
\* before and exists after the call, whether mkdir was called, the device
\* the mount command was issued against, how many mount commands were
\* issued, and the path returned or the message of the error raised.
NoEnsure ==
    [rp2 |-> "unset", name |-> None, dir_before |-> FALSE,
     dir_after |-> FALSE, mkdir |-> FALSE, mount_dev |-> None, mounts |-> 0,
     result |-> None]

\* Record of one wait_for_bootsel_mount call: its timeout argument, the
\* message of its first failed attempt, and, once it has raised on its
\* deadline, the message raised and the time since the call started.
NoWait == [timeout |-> None, first_err |-> None, raised |-> None, at |-> 0]

\* Record of one read_banner call: the markers held by the input that was
\* buffered when the port was opened, whether a line of that input was
\* read, the markers held by lines that were read without ending the scan,
\* and the last line read that was not empty after strip().
NoScan ==
    [stale |-> {}, stale_read |-> FALSE, skipped |-> {}, nonempty |-> <<>>]

\* Record of one run_mpremote call: its arguments, what the mpremote
\* process did (exit status, text on stderr and on stdout), how the call
\* ended ("unset" before it has, then "returned", "raised" for the
\* RuntimeError of line 46 or "oserror" when the process could not be
\* started) and the error text put into the raised message.
NoCall ==
    [quiet |-> None, allow_error |-> None, exit |-> None, stderr |-> <<>>,
     stdout |-> <<>>, outcome |-> None, err |-> <<>>]

Bump(field) == [fx EXCEPT ![field] = @ + 1]

Requests ==
    [command : Commands, mode : ModeChoices, force_flash : BOOLEAN,
     install_helpers : BOOLEAN, verbose : BOOLEAN]

\* The arguments main passes to switch_firmware for each subcommand.
Target(r) == IF r.command = "to-py" THEN "py" ELSE "cpp"
InstallHelpers(r) == IF r.command = "to-py" THEN r.install_helpers ELSE FALSE

\* Arguments argparse can produce: `detect` has only --port, --timeout and
\* --verbose; `to-cpp` has no --install-helpers.
ValidRequest(r) ==
    /\ r.command = "detect" =>
         r.mode = "auto" /\ ~r.force_flash /\ ~r.install_helpers
    /\ r.command = "to-cpp" => ~r.install_helpers

IdleRequest ==
    [command |-> "detect", mode |-> "auto", force_flash |-> FALSE,
     install_helpers |-> FALSE, verbose |-> FALSE]

\* Everything of an invocation, before main is entered.
NoInvocation ==
    /\ req = IdleRequest
    /\ pc = "idle"
    /\ caller = None
    /\ selected_mode = None
    /\ trigger_error = None
    /\ mountpoint = None
    /\ now = 0
    /\ deadline = 0
    /\ last_error = None
    /\ last_line = <<>>
    /\ ser_open = FALSE
    /\ helper_idx = 0
    /\ flashed = None
    /\ detected = "pending"
    /\ call_site = None
    /\ failure = NoFailure
    /\ exit_code = 0
    /\ message = None
    /\ steps = <<>>
    /\ fx = NoEffects
    /\ serial_writes = <<>>
    /\ det = NoDetect
    /\ trigger_exit = None
    /\ prev = None
    /\ uf2_written = <<>>
    /\ helper_log = <<>>
    /\ ensure = NoEnsure
    /\ wait = NoWait
    /\ in_buffer = <<>>
    /\ scan = NoScan

Init ==
    /\ NoInvocation
    /\ mp_call = NoCall

(* ----------------------------- control flow --------------------------- *)
\* Step of the orchestrator the invocation is in (None outside
\* switch_firmware).
CurrentStep == IF steps = <<>> THEN None ELSE steps[Len(steps)]

InSwitch == CurrentStep \notin {None, "Done", "Failed"}

\* Move to position p inside the same function.
Goto(p) ==
    /\ pc' = p
    /\ UNCHANGED <<caller, selected_mode, detected, failure, exit_code, steps,
                   flashed, message>>

\* Move to position p, entering orchestrator step s.
Enter(p, s) ==
    /\ pc' = p
    /\ steps' = Append(steps, s)
    /\ UNCHANGED <<caller, selected_mode, detected, failure, exit_code,
                   flashed, message>>

\* detect_mode_safe 71-76: `except Exception` around the detect_mode call
\* made for `who`; every kind of failure the model has is an Exception.
\* Faulty variant: only RuntimeError is caught, as in the wait loop.
SwallowsRuntimeOnly(who, exc) == who = "safe" /\ exc = "RuntimeError"

Swallows(who, exc) == who = "safe"

\* An exception of class exc leaves the current function.  Inside
\* detect_mode_safe every Exception becomes the result None and main returns
\* 0 (pico_switch.py 71-76, pico_cli.py 151-153); anywhere else it reaches
\* main's `except Exception`, which prints it and returns 1 (186-188).
Raise(exc, msg, detail) ==
    IF Swallows(caller, exc)
    THEN /\ detected' = None
         /\ pc' = "exit"
         /\ exit_code' = 0
         /\ UNCHANGED <<caller, selected_mode, failure, steps, flashed,
                        message>>
    ELSE /\ failure' = [exc |-> exc, msg |-> msg, detail |-> detail,
                        at |-> CurrentStep]
         /\ pc' = "exit"
         /\ exit_code' = 1
         /\ steps' = IF InSwitch THEN Append(steps, "Failed") ELSE steps
         /\ UNCHANGED <<caller, selected_mode, detected, flashed, message>>

\* detect_mode returns m to its caller: main's `detect` command (115-120),
\* switch_firmware's ResolveMode (126), or detect_mode_safe (72).
DetectReturn(m, d) ==
    /\ det' = [d EXCEPT !.returned = TRUE, !.result = m]
    /\ CASE caller = "main" ->
              /\ detected' = m
              /\ pc' = "exit"
              /\ exit_code' = IF m # None THEN 0 ELSE 1
              /\ UNCHANGED <<caller, selected_mode, failure, steps, flashed,
                             message>>
         [] caller = "switch" ->
              /\ selected_mode' = IF m # None THEN m ELSE "unknown"
              /\ pc' = "check"
              /\ UNCHANGED <<caller, detected, failure, exit_code, steps,
                             flashed,
                             message>>
         [] caller = "safe" ->
              /\ detected' = m
              /\ pc' = "exit"
              /\ exit_code' = 0
              /\ UNCHANGED <<caller, selected_mode, failure, steps, flashed,
                             message>>

\* Faulty variant: True whichever call site returns.
ReturnValueAlways(site) == TRUE

\* switch_firmware 139, 163: the value returned after the helper call made
\* at `site`.
ReturnValue(site) == site = "flash"

\* switch_firmware returns to main (139 / 163), which reports the outcome and,
\* for to-py, runs the post-switch detect_mode_safe (146-153, 170-174).
Return ==
    /\ flashed' = IF ReturnValue(call_site) THEN "true" ELSE "false"
    /\ message' = IF ReturnValue(call_site) THEN "switched" ELSE "already"
    /\ steps' = Append(steps, "Done")
    /\ IF req.command = "to-py"
       THEN /\ caller' = "safe"
            /\ pc' = "detect_locate"
            /\ det' = NoDetect
            /\ UNCHANGED exit_code
       ELSE /\ pc' = "exit"
            /\ exit_code' = 0
            /\ UNCHANGED <<caller, det>>
    /\ UNCHANGED <<selected_mode, detected, failure>>

\* wait loops: `time.time() < deadline`.
\* Faulty variant: the loop gives up one interval early.
BeforeDeadlineShort(n, d) == n + 1 < d

\* Faulty variant: the test is made with `<=`, so that a loop whose timeout
\* is zero still makes one pass.
BeforeDeadlineInclusive(n, d) == n <= d

BeforeDeadline(n, d) == n < d

(* ------------------------------ invocation ---------------------------- *)
\* The previous invocation was a forced reflash of the mode already active
\* that returned True.
WasForcedReflash ==
    /\ pc = "exit"
    /\ req.command # "detect"
    /\ req.force_flash
    /\ selected_mode = Target(req)
    /\ flashed = "true"

\* main() is entered with parsed arguments r (pico_cli.py 107-131).
StartRun ==
    /\ pc = "idle"
    /\ \E r \in Requests :
         /\ ValidRequest(r)
         /\ req' = r
         /\ IF r.command = "detect"
            THEN /\ caller' = "main"
                 /\ pc' = "detect_locate"
                 /\ steps' = <<>>
            ELSE /\ caller' = None
                 /\ pc' = "resolve"
                 /\ steps' = <<"ResolveMode">>
    /\ UNCHANGED <<selected_mode, trigger_error, mountpoint, now, deadline,
                   last_error, last_line, ser_open, helper_idx, flashed,
                   detected, call_site, failure, exit_code, message, fx,
                   serial_writes, det, trigger_exit, prev, uf2_written,
                   helper_log, ensure, wait, in_buffer, scan, mp_call>>

\* main() has returned (pico_cli.py 118-188) and the invocation is over:
\* nothing of it survives.
Finish ==
    /\ pc = "exit"
    /\ pc' = "idle"
    /\ prev' = IF WasForcedReflash THEN Target(req) ELSE None
    /\ req' = IdleRequest
    /\ caller' = None
    /\ steps' = <<>>
    /\ selected_mode' = None
    /\ trigger_error' = None
    /\ mountpoint' = None
    /\ now' = 0
    /\ deadline' = 0
    /\ last_error' = None
    /\ last_line' = <<>>
    /\ ser_open' = FALSE
    /\ helper_idx' = 0
    /\ flashed' = None
    /\ detected' = "pending"
    /\ call_site' = None
    /\ failure' = NoFailure
    /\ exit_code' = 0
    /\ message' = None
    /\ fx' = NoEffects
    /\ serial_writes' = <<>>
    /\ det' = NoDetect
    /\ trigger_exit' = None
    /\ uf2_written' = <<>>
    /\ helper_log' = <<>>
    /\ ensure' = NoEnsure
    /\ wait' = NoWait
    /\ in_buffer' = <<>>
    /\ scan' = NoScan
    /\ UNCHANGED mp_call

(* ------------------------------ detect_mode --------------------------- *)
\* `rp2 is not None` for the answer o of lsblk (find_rpi_rp2 61-67): an
\* entry labelled RPI-RP2 exists, mounted or not.
\* Faulty variants: an unmounted volume is not seen; a volume is taken
\* to be there whatever lsblk listed.
rp2_found_if_mounted(o) == o = "mounted"

rp2_found_always(o) == TRUE

rp2_found(o) == o \in {"mounted", "unmounted"}

\* Timeout detect_mode is called with when the request carries t: as given
\* (pico_cli.py 115; pico_switch.py 126), or max(t, 2.0) for the post-switch
\* detect (pico_cli.py 150).
DetectTimeout(t) ==
    IF caller = "safe"
    THEN (IF t > PostDetectMin THEN t ELSE PostDetectMin)
    ELSE t

\* detect_mode 36-40: the locator call and the BOOTSEL verdict.
DetectLocate ==
    /\ pc = "detect_locate"
    /\ fx' = Bump("detect_locate")
    /\ \E o \in LsblkOutcomes :
         LET d == [det EXCEPT !.rp2 = o] IN
         IF o = "norun"
         THEN Raise("OSError", "lsblk_norun", None) /\ det' = d
         ELSE IF o = "nonzero"
         THEN Raise("RuntimeError", "lsblk_failed", None) /\ det' = d
         ELSE IF rp2_found(o)
         THEN DetectReturn("bootsel", d)
         ELSE Goto("banner_open") /\ det' = d
    /\ UNCHANGED <<req, trigger_exit, trigger_error, mountpoint, now,
                   deadline, last_error,
                   last_line, ser_open, helper_idx, call_site, serial_writes,
                   prev, uf2_written, helper_log, ensure, wait, in_buffer,
                   scan, mp_call>>

\* `with serial.Serial(...) as ser:` (read_banner 188, trigger_from_cpp
\* 214): whether the port is still open once the block has been left, by a
\* return or by an exception.
\* Faulty variant: an exception leaves the port open.
WithExitKeepsOnError(by_error) == by_error

WithExit(by_error) == FALSE

\* What may sit in the input buffer when the port is opened: nothing, or
\* a line sent before the call (a banner of an earlier boot).
StaleBuffers == {<<>>} \cup {<<l>> : l \in RawLines \ {<<>>}}

\* read_banner 189: ser.reset_input_buffer().
\* Faulty variant: the buffered input is kept.
ResetInputBufferKeeps(buf) == buf

ResetInputBuffer(buf) == <<>>

\* read_banner 187-190: open the port, discard the buffered input and take
\* the deadline.
BannerOpen ==
    /\ pc = "banner_open"
    /\ fx' = Bump("banner_open")
    /\ \E opened \in BOOLEAN, t \in Timeouts, buffered \in StaleBuffers :
         IF opened
         THEN /\ ser_open' = TRUE
              /\ in_buffer' = ResetInputBuffer(buffered)
              /\ scan' = [NoScan EXCEPT
                            !.stale = UNION {Markers(l) : l \in Range(buffered)}]
              /\ deadline' = now + DetectTimeout(t)
              /\ det' = [det EXCEPT !.banner = "open"]
              /\ Goto("banner_loop")
         ELSE /\ Raise("SerialException", "open_failed", None)
              /\ det' = [det EXCEPT !.banner = "failed"]
              /\ UNCHANGED <<ser_open, deadline, in_buffer, scan>>
    /\ last_line' = <<>>
    /\ now' = 0
    /\ UNCHANGED <<req, trigger_exit, trigger_error, mountpoint, last_error,
                   helper_idx, call_site, serial_writes, prev, uf2_written,
                   helper_log, ensure, wait, mp_call>>

\* detect_mode 50: `if mode:` for the mode read_banner returned.
\* Faulty variant: the banner's verdict is not taken as final.
BannerDecidesNever(mode) == FALSE

BannerDecides(mode) == mode # None

\* read_banner 195-196: `last_line = line` for the stripped line.
LastLine(old, line) == line

\* read_banner 191-200 and detect_mode 50-53: one readline, which raises
\* (the device went away) or returns the next buffered line if there is one
\* and else what arrives within its timeout (b"" if nothing does).
BannerRead ==
    /\ pc = "banner_loop"
    /\ BeforeDeadline(now, deadline)
    /\ \/ /\ Raise("SerialException", "read_failed", None)
          /\ det' = [det EXCEPT !.banner = "broken"]
          /\ ser_open' = WithExit(TRUE)
          /\ last_line' = <<>>
          /\ now' = 0
          /\ deadline' = 0
          /\ in_buffer' = <<>>
          /\ scan' = NoScan
       \/ \E fresh \in RawLines :
         LET buffered == in_buffer # <<>>
             raw == IF buffered THEN Head(in_buffer) ELSE fresh
             d == [det EXCEPT !.native = @ \/ Contains(raw, "C")]
             sc == [scan EXCEPT !.stale_read = @ \/ buffered]
         IN
         /\ in_buffer' = IF buffered THEN Tail(in_buffer) ELSE in_buffer
         /\ IF raw = <<>>
            THEN /\ Goto("banner_loop")
                 /\ now' = now + 1
                 /\ UNCHANGED <<last_line, ser_open, deadline, det, scan>>
            ELSE IF BannerMode(Strip(raw)) # None
            THEN /\ IF BannerDecides(BannerMode(Strip(raw)))
                    THEN DetectReturn(BannerMode(Strip(raw)),
                                      [d EXCEPT !.matched = Markers(raw),
                                                !.banner = "matched"])
                    ELSE /\ Goto("probe")
                         /\ det' = [d EXCEPT !.matched = Markers(raw),
                                             !.banner = "matched"]
                 /\ scan' = sc
                 /\ last_line' = <<>>
                 /\ ser_open' = WithExit(FALSE)
                 /\ now' = 0
                 /\ deadline' = 0
            ELSE /\ Goto("banner_loop")
                 /\ now' = now + 1
                 /\ last_line' = LastLine(last_line, Strip(raw))
                 /\ det' = d
                 /\ scan' = [sc EXCEPT
                               !.skipped = @ \cup Markers(raw),
                               !.nonempty = IF Strip(raw) # <<>>
                                            THEN Strip(raw) ELSE @]
                 /\ UNCHANGED <<ser_open, deadline>>
    /\ UNCHANGED <<req, trigger_exit, trigger_error, mountpoint, last_error,
                   helper_idx, call_site, fx, serial_writes, prev,
                   uf2_written, helper_log, ensure, wait, mp_call>>

\* read_banner 191, 201: the deadline passed without a marker.
BannerTimeout ==
    /\ pc = "banner_loop"
    /\ ~BeforeDeadline(now, deadline)
    /\ ser_open' = WithExit(FALSE)
    /\ Goto("probe")
    /\ det' = [det EXCEPT !.banner = "nomatch"]
    /\ now' = 0
    /\ deadline' = 0
    /\ UNCHANGED <<req, trigger_exit,
                   trigger_error, mountpoint, last_error, last_line,
                   helper_idx, call_site, fx, serial_writes, prev,
                   uf2_written, helper_log, ensure, wait, in_buffer, scan,
                   mp_call>>

\* probe_micropython 66-74: `result.returncode == 0`.
\* Faulty variant: the exit code is not looked at.
ProbeResultAny(o) == TRUE

ProbeResult(o) == o = "zero"

\* detect_mode 53-56 with probe_micropython 61-74.
Probe ==
    /\ pc = "probe"
    /\ fx' = Bump("probe_exec")
    /\ \E o \in BridgeOutcomes :
         LET d == [det EXCEPT !.probe = o] IN
         IF o = "norun"
         THEN Raise("OSError", "mpremote_norun", None) /\ det' = d
         ELSE DetectReturn(IF ProbeResult(o) THEN "py" ELSE None, d)
    /\ last_line' = <<>>
    /\ scan' = NoScan
    /\ UNCHANGED <<req, trigger_exit, trigger_error, mountpoint, now,
                   deadline, last_error,
                   ser_open, helper_idx, call_site, serial_writes, prev,
                   uf2_written, helper_log, ensure, wait, in_buffer, mp_call>>

(* ---------------------------- switch_firmware ------------------------- *)
\* switch_firmware 125: `selected_mode == "auto"`.
\* Faulty variant: the mode is detected whatever the override says.
NeedsDetectAlways(mode) == TRUE

NeedsDetect(mode) == mode = "auto"

\* Faulty variant of ResolveMode: the image is looked for before anything
\* is done, and a missing image fails the run there.
ResolveModeChecksImage ==
    /\ pc = "resolve"
    /\ \E exists \in BOOLEAN :
         IF ~exists
         THEN /\ Raise("RuntimeError", "uf2_not_found", None)
              /\ UNCHANGED <<req, det, trigger_exit, trigger_error,
                             mountpoint, now, deadline, last_error, last_line,
                             ser_open, helper_idx, call_site, fx,
                             serial_writes, prev, uf2_written, helper_log,
                             ensure, wait, in_buffer, scan, mp_call>>
         ELSE /\ IF NeedsDetect(req.mode)
                 THEN /\ caller' = "switch"
                      /\ pc' = "detect_locate"
                      /\ UNCHANGED selected_mode
                 ELSE /\ selected_mode' = req.mode
                      /\ pc' = "check"
                      /\ UNCHANGED caller
              /\ UNCHANGED <<req, det, trigger_exit, trigger_error,
                             mountpoint, now, deadline, last_error, last_line,
                             ser_open, helper_idx, flashed, detected,
                             call_site, failure, exit_code, message, steps,
                             fx, serial_writes, prev, uf2_written,
                             helper_log, ensure, wait, in_buffer, scan,
                             mp_call>>

\* switch_firmware 124-126: ResolveMode.
ResolveMode ==
    /\ pc = "resolve"
    /\ IF NeedsDetect(req.mode)
       THEN /\ caller' = "switch"
            /\ pc' = "detect_locate"
            /\ UNCHANGED selected_mode
       ELSE /\ selected_mode' = req.mode
            /\ pc' = "check"
            /\ UNCHANGED caller
    /\ UNCHANGED <<req, det, trigger_exit,
                   trigger_error, mountpoint, now, deadline, last_error,
                   last_line, ser_open, helper_idx, flashed, detected,
                   call_site, failure, exit_code, message, steps, fx,
                   serial_writes, prev, uf2_written, helper_log, ensure, wait,
                   in_buffer, scan, mp_call>>

\* The run resolved the current mode to the target and was not told to
\* reflash.
ShortCircuited ==
    /\ req.command # "detect"
    /\ selected_mode = Target(req)
    /\ ~req.force_flash

\* switch_firmware 128: `selected_mode == target and not force_flash`.
\* Faulty variants: no short-circuit at all (as in pico.py 200-233), and a
\* short-circuit that ignores force_flash.
ShortCircuitNever(selected, target, force) == FALSE

ShortCircuitIgnoresForce(selected, target, force) == selected = target

ShortCircuit(selected, target, force) == selected = target /\ ~force

\* switch_firmware 128-141: skip the flash, or go on to the trigger.
CheckShortCircuit ==
    /\ pc = "check"
    /\ scan' = NoScan
    /\ prev' = IF ShortCircuited THEN prev ELSE None
    /\ IF ShortCircuit(selected_mode, Target(req), req.force_flash)
       THEN /\ call_site' = "skip"
            /\ Goto("helpers")
       ELSE /\ Enter("trigger", "Trigger")
            /\ UNCHANGED call_site
    /\ UNCHANGED <<req, det, trigger_exit,
                   trigger_error, mountpoint, now, deadline, last_error,
                   last_line, ser_open, helper_idx, fx, serial_writes,
                   uf2_written, helper_log, ensure, wait, in_buffer, mp_call>>

\* _trigger_bootsel 181-190: which trigger the resolved mode selects.
\* Faulty variant: an unresolved mode is treated like BOOTSEL.
TriggerKindLenient(selected) ==
    CASE selected = "py" -> "exec"
      [] selected = "cpp" -> "serial"
      [] OTHER -> "skip"

TriggerKind(selected) ==
    CASE selected = "py" -> "exec"
      [] selected = "cpp" -> "serial"
      [] selected = "bootsel" -> "skip"
      [] OTHER -> "raise"

\* _format_mpremote_error 13: the captured text, which exists only when the
\* output was captured (capture_output=quiet).
FormatError(text, quiet) == IF quiet THEN text ELSE ""

\* trigger_from_py 95-100: None on exit 0, else the error text or a fixed
\* message when there is none.
TriggerError(o, text, verbose) ==
    IF o = "zero" THEN None
    ELSE IF FormatError(text, ~verbose) # "" THEN FormatError(text, ~verbose)
    ELSE "mpremote failed to run bootloader_trigger"

\* wait_for_bootsel_mount 118-119, entered from switch_firmware 143-148.
AwaitInit ==
    /\ now' = 0
    /\ \E t \in WaitTimeouts :
         /\ deadline' = now' + t
         /\ wait' = [NoWait EXCEPT !.timeout = t]
    /\ last_error' = None
    /\ Enter("await_loop", "AwaitBootloader")

\* Faulty variant of TriggerFromPy: a nonzero exit raises at once (as
\* pico.py 172-175 does, where run_mpremote has no allow_error).
TriggerFromPyStrict ==
    /\ pc = "trigger"
    /\ TriggerKind(selected_mode) = "exec"
    /\ fx' = Bump("trigger_exec")
    /\ \E o \in BridgeOutcomes, text \in BridgeTexts :
         /\ trigger_exit' = o
         /\ IF o # "zero"
            THEN /\ Raise("RuntimeError", "mpremote_failed", None)
                 /\ UNCHANGED <<trigger_error, now, deadline, last_error,
                                wait>>
            ELSE /\ trigger_error' = TriggerError(o, text, req.verbose)
                 /\ AwaitInit
    /\ UNCHANGED <<req, det, mountpoint, last_line, ser_open, helper_idx,
                   call_site, serial_writes, prev, uf2_written, helper_log,
                   ensure, in_buffer, scan, mp_call>>

\* trigger_from_py 88-100 via _trigger_bootsel 181-182.
TriggerFromPy ==
    /\ pc = "trigger"
    /\ TriggerKind(selected_mode) = "exec"
    /\ fx' = Bump("trigger_exec")
    /\ \E o \in BridgeOutcomes, text \in BridgeTexts :
         /\ trigger_exit' = o
         /\ IF o = "norun"
            THEN /\ Raise("OSError", "mpremote_norun", None)
                 /\ UNCHANGED <<trigger_error, now, deadline, last_error,
                                wait>>
            ELSE /\ trigger_error' = TriggerError(o, text, req.verbose)
                 /\ AwaitInit
    /\ UNCHANGED <<req, det, mountpoint, last_line, ser_open, helper_idx,
                   call_site, serial_writes, prev, uf2_written, helper_log,
                   ensure, in_buffer, scan, mp_call>>

\* trigger_from_cpp 214: open the port.
TriggerFromCppOpen ==
    /\ pc = "trigger"
    /\ TriggerKind(selected_mode) = "serial"
    /\ fx' = Bump("trigger_open")
    /\ \E opened \in BOOLEAN :
         IF opened
         THEN /\ ser_open' = TRUE
              /\ Goto("cpp_write")
         ELSE /\ Raise("SerialException", "open_failed", None)
              /\ UNCHANGED ser_open
    /\ UNCHANGED <<req, det, trigger_exit,
                   trigger_error, mountpoint, now, deadline, last_error,
                   last_line, helper_idx, call_site, serial_writes, prev,
                   uf2_written, helper_log, ensure, wait, in_buffer, scan,
                   mp_call>>

\* pico.py 183-187: the single-file script writes b"b" and, after
\* time.sleep(0.15), b"ru".
LegacyCppTriggerWrites == <<1, 2>>

\* trigger_from_cpp 215-216: the byte strings written before the port is
\* closed, by length.
CppTriggerWrites == <<1>>

\* trigger_from_cpp 215-216 and _trigger_bootsel 184-185: write, flush, close.
TriggerFromCppWrite ==
    /\ pc = "cpp_write"
    /\ \E written \in BOOLEAN :
         IF written
         THEN /\ serial_writes' = serial_writes \o CppTriggerWrites
              /\ trigger_error' = None
              /\ ser_open' = WithExit(FALSE)
              /\ AwaitInit
         ELSE /\ Raise("SerialException", "write_failed", None)
              /\ ser_open' = WithExit(TRUE)
              /\ UNCHANGED <<serial_writes, trigger_error, now, deadline,
                             last_error, wait>>
    /\ UNCHANGED <<req, det, trigger_exit,
                   mountpoint, last_line, helper_idx, call_site, fx,
                   prev, uf2_written, helper_log, ensure, in_buffer, scan,
                   mp_call>>

\* _trigger_bootsel 186-189: already in BOOTSEL, nothing to send.
TriggerSkip ==
    /\ pc = "trigger"
    /\ TriggerKind(selected_mode) = "skip"
    /\ trigger_error' = None
    /\ AwaitInit
    /\ UNCHANGED <<req, det, trigger_exit,
                   mountpoint, last_line, ser_open, helper_idx,
                   call_site, fx, serial_writes, prev, uf2_written,
                   helper_log, ensure, in_buffer, scan, mp_call>>

\* _trigger_bootsel 190: the mode is not known.
TriggerUnknown ==
    /\ pc = "trigger"
    /\ TriggerKind(selected_mode) = "raise"
    /\ Raise("RuntimeError", "mode_unresolved", None)
    /\ UNCHANGED <<req, det, trigger_exit,
                   trigger_error, mountpoint, now, deadline, last_error,
                   last_line, ser_open, helper_idx, call_site, fx,
                   serial_writes, prev, uf2_written, helper_log, ensure, wait,
                   in_buffer, scan, mp_call>>

\* The names a block device can have.
DeviceNames == {"sda1", "sdb1"}

\* ensure_rpi_rp2_mounted 88: `if rp2.mountpoint:` for the answer o of lsblk.
\* Faulty variant: the mountpoint lsblk reports is not looked at.
HasMountpointNever(o) == FALSE

HasMountpoint(o) == o = "mounted"

\* ensure_rpi_rp2_mounted 95: the device of the mount command, for the
\* entry named n.
MountDevice(n) == n

\* The wait returned a mountpoint: switch_firmware goes on to copy_uf2 (153).
Mounted(mp) ==
    /\ mountpoint' = mp
    /\ Enter("flash", "Flash")
    /\ now' = 0
    /\ deadline' = 0
    /\ last_error' = None
    /\ UNCHANGED wait

\* Faulty variant of Retry: the first error is kept.
RetryKeepsFirst(err) ==
    /\ last_error' = IF last_error = None THEN err ELSE last_error
    /\ wait' = [wait EXCEPT !.first_err = IF @ = None THEN err ELSE @]
    /\ now' = now + PollInterval
    /\ Goto("await_loop")
    /\ UNCHANGED <<mountpoint, deadline>>

\* wait_for_bootsel_mount 123-125: note the error and sleep one interval.
Retry(err) ==
    /\ last_error' = err
    /\ wait' = [wait EXCEPT !.first_err = IF @ = None THEN err ELSE @]
    /\ now' = now + PollInterval
    /\ Goto("await_loop")
    /\ UNCHANGED <<mountpoint, deadline>>

\* An exception that is not a RuntimeError leaves the wait (121-125 catch
\* only RuntimeError).
Escape(exc, msg) ==
    /\ Raise(exc, msg, None)
    /\ now' = 0
    /\ deadline' = 0
    /\ last_error' = None
    /\ UNCHANGED <<mountpoint, wait>>

\* wait_for_bootsel_mount 120-125 with ensure_rpi_rp2_mounted 84-100: one
\* attempt.  lsblk answers lo, naming the entry dev if it found one; the
\* fallback directory exists or not (dir); mkdir and mount answer mo.  Only
\* RuntimeError is caught and retried.
AwaitAttempt ==
    /\ pc = "await_loop"
    /\ BeforeDeadline(now, deadline)
    /\ \E lo \in LsblkOutcomes, mo \in MountOutcomes, dev \in DeviceNames,
          dir \in BOOLEAN :
         LET e == [NoEnsure EXCEPT !.rp2 = lo, !.dir_before = dir,
                                   !.dir_after = dir]
             found == [e EXCEPT !.name = dev]
         IN
         IF lo = "norun"
         THEN /\ Escape("OSError", "lsblk_norun")
              /\ ensure' = [e EXCEPT !.result = "lsblk_norun"]
              /\ fx' = Bump("poll")
         ELSE IF lo = "nonzero"
         THEN /\ Retry("lsblk_failed")
              /\ ensure' = [e EXCEPT !.result = "lsblk_failed"]
              /\ fx' = Bump("poll")
         ELSE IF ~rp2_found(lo)
         THEN /\ Retry("rp2_not_found")
              /\ ensure' = [e EXCEPT !.result = "rp2_not_found"]
              /\ fx' = Bump("poll")
         ELSE IF HasMountpoint(lo)
         THEN /\ Mounted("auto")
              /\ ensure' = [found EXCEPT !.result = "auto"]
              /\ fx' = Bump("poll")
         ELSE IF mo = "oserror"
         THEN /\ Escape("OSError", "mkdir_failed")
              /\ ensure' = [found EXCEPT !.mkdir = TRUE,
                                         !.result = "mkdir_failed"]
              /\ fx' = [fx EXCEPT !.poll = @ + 1, !.mkdir = @ + 1]
         ELSE IF mo = "nonzero"
         THEN /\ Retry("mount_failed")
              /\ ensure' = [found EXCEPT !.mkdir = TRUE, !.dir_after = TRUE,
                                         !.mount_dev = MountDevice(dev),
                                         !.mounts = 1,
                                         !.result = "mount_failed"]
              /\ fx' = [fx EXCEPT !.poll = @ + 1, !.mkdir = @ + 1,
                                  !.mount = @ + 1]
         ELSE /\ Mounted("base")
              /\ ensure' = [found EXCEPT !.mkdir = TRUE, !.dir_after = TRUE,
                                         !.mount_dev = MountDevice(dev),
                                         !.mounts = 1, !.result = "base"]
              /\ fx' = [fx EXCEPT !.poll = @ + 1, !.mkdir = @ + 1,
                                  !.mount = @ + 1]
    /\ UNCHANGED <<req, det, trigger_exit, trigger_error, last_line, ser_open,
                   helper_idx, call_site, serial_writes, prev, uf2_written,
                   helper_log, in_buffer, scan, mp_call>>

\* wait_for_bootsel_mount 126: `last_error or "Timed out waiting for RPI-RP2"`.
TimeoutMessage(err) == IF err # None THEN err ELSE "timed_out"

\* switch_firmware 149-152: the failure raised when the wait raised a
\* RuntimeError with message inner.
AwaitFailure(terr, inner) ==
    IF terr # None
    THEN [msg |-> "trigger_failed", detail |-> terr]
    ELSE [msg |-> inner, detail |-> None]

\* Faulty variant of AwaitTimeout: the timeout is swallowed and the run goes
\* on to copy_uf2 without a mountpoint.
AwaitTimeoutSwallowed ==
    /\ pc = "await_loop"
    /\ ~BeforeDeadline(now, deadline)
    /\ Enter("flash", "Flash")
    /\ now' = 0
    /\ deadline' = 0
    /\ last_error' = None
    /\ UNCHANGED <<req, det, trigger_exit, trigger_error, mountpoint,
                   last_line, ser_open, helper_idx, call_site, fx,
                   serial_writes, prev, uf2_written, helper_log, ensure, wait,
                   in_buffer, scan, mp_call>>

\* wait_for_bootsel_mount 120, 126 and switch_firmware 149-152: the
\* deadline passed.
AwaitTimeout ==
    /\ pc = "await_loop"
    /\ ~BeforeDeadline(now, deadline)
    /\ Raise("RuntimeError",
             AwaitFailure(trigger_error, TimeoutMessage(last_error)).msg,
             AwaitFailure(trigger_error, TimeoutMessage(last_error)).detail)
    /\ wait' = [wait EXCEPT !.raised = TimeoutMessage(last_error),
                            !.at = now]
    /\ now' = 0
    /\ deadline' = 0
    /\ last_error' = None
    /\ UNCHANGED <<req, det, trigger_exit,
                   trigger_error, mountpoint, last_line, ser_open,
                   helper_idx, call_site, fx, serial_writes, prev,
                   uf2_written, helper_log, ensure, in_buffer, scan, mp_call>>

\* The image main passes for each subcommand (pico_cli.py 17-18, 85, 95,
\* 136, 160), as the components of its path.
Uf2Path(r) ==
    IF r.command = "to-py" THEN <<"uf2s", "py.uf2">> ELSE <<"uf2s", "cpp.uf2">>

\* Path.name: the last component.
Name(path) == path[Len(path)]

\* copy_uf2 145: `mountpoint / uf2_path.name`.
\* Faulty variant: a fixed file name on the volume.
DestFixedName(mp, uf2) == <<mp, "firmware.uf2">>

Dest(mp, uf2) == <<mp, Name(uf2)>>

\* copy_uf2 141-145: check the image, copy it to the volume.
CopyUf2 ==
    /\ pc = "flash"
    /\ ensure' = NoEnsure
    /\ wait' = NoWait
    /\ \E exists \in BOOLEAN, copied \in BOOLEAN :
         CASE ~exists ->
                /\ Raise("RuntimeError", "uf2_not_found", None)
                /\ UNCHANGED <<fx, uf2_written>>
           [] exists /\ copied ->
                /\ fx' = Bump("copy")
                /\ uf2_written' = Append(uf2_written, Dest(mountpoint, Uf2Path(req)))
                /\ Goto("sync")
           [] exists /\ ~copied ->
                /\ Raise("OSError", "copy_failed", None)
                /\ UNCHANGED <<fx, uf2_written>>
    /\ UNCHANGED <<req, det, trigger_exit,
                   trigger_error, mountpoint, now, deadline, last_error,
                   last_line, ser_open, helper_idx, call_site, serial_writes,
                   prev, helper_log, in_buffer, scan, mp_call>>

\* Faulty variant of Sync: copy_uf2 returns without os.sync().
SyncSkipped ==
    /\ pc = "sync"
    /\ call_site' = "flash"
    /\ Goto("helpers")
    /\ UNCHANGED <<req, det, trigger_exit, trigger_error, mountpoint, now,
                   deadline, last_error, last_line, ser_open, helper_idx,
                   fx, serial_writes, prev, uf2_written, helper_log, ensure,
                   wait, in_buffer, scan, mp_call>>

\* copy_uf2 146 and switch_firmware 155: os.sync(), then the helpers.
Sync ==
    /\ pc = "sync"
    /\ fx' = Bump("sync")
    /\ call_site' = "flash"
    /\ Goto("helpers")
    /\ UNCHANGED <<req, det, trigger_exit,
                   trigger_error, mountpoint, now, deadline, last_error,
                   last_line, ser_open, helper_idx, serial_writes, prev,
                   uf2_written, helper_log, ensure, wait, in_buffer, scan,
                   mp_call>>

\* _install_helpers_if_requested 203: `target != "py" or not install_helpers`
\* negated.
HelpersRequested(target, install) == target = "py" /\ install

\* _install_helpers_if_requested 203-205 with wait_for_serial_port 161.
HelpersGuard ==
    /\ pc = "helpers"
    /\ IF HelpersRequested(Target(req), InstallHelpers(req))
       THEN /\ \E t \in WaitTimeouts : deadline' = now + t
            /\ Enter("serial_wait", "ProvisionHelpers")
            /\ UNCHANGED det
       ELSE /\ Return
            /\ UNCHANGED deadline
    /\ UNCHANGED <<req, trigger_exit, trigger_error, mountpoint, now,
                   last_error, last_line,
                   ser_open, helper_idx, call_site, fx, serial_writes, prev,
                   uf2_written, helper_log, ensure, wait, in_buffer, scan,
                   mp_call>>

\* One entry of helper_log: the operation ("wait", "require" or "cp"), the
\* index of the file copied (0 when none) and how the operation ended.
Logged(op, file, exit) == [op |-> op, file |-> file, exit |-> exit]

\* wait_for_serial_port 162-167: one check of the device path.
SerialWaitPoll ==
    /\ pc = "serial_wait"
    /\ BeforeDeadline(now, deadline)
    /\ \E exists \in BOOLEAN :
         IF exists
         THEN /\ Goto("require_helpers")
              /\ helper_log' = Append(helper_log, Logged("wait", 0, "ok"))
              /\ now' = 0
              /\ deadline' = 0
         ELSE /\ Goto("serial_wait")
              /\ now' = now + PollInterval
              /\ UNCHANGED <<deadline, helper_log>>
    /\ UNCHANGED <<req, det, trigger_exit,
                   trigger_error, mountpoint, last_error, last_line,
                   ser_open, helper_idx, call_site, fx, serial_writes, prev,
                   uf2_written, ensure, wait, in_buffer, scan, mp_call>>

\* Faulty variant of SerialWaitTimeout: the image copied in Flash is removed
\* from the volume before the failure leaves switch_firmware.
SerialWaitTimeoutUndoesCopy ==
    /\ pc = "serial_wait"
    /\ ~BeforeDeadline(now, deadline)
    /\ Raise("RuntimeError", "serial_timeout", None)
    /\ helper_log' = Append(helper_log, Logged("wait", 0, "timeout"))
    /\ now' = 0
    /\ deadline' = 0
    /\ uf2_written' = <<>>
    /\ UNCHANGED <<req, det, trigger_exit, trigger_error, mountpoint,
                   last_error, last_line, ser_open, helper_idx, call_site,
                   fx, serial_writes, prev, ensure, wait, in_buffer, scan,
                   mp_call>>

\* wait_for_serial_port 162, 168.  Nothing in switch_firmware (153-163) or
\* main (186-188) touches the volume again once copy_uf2 has returned.
SerialWaitTimeout ==
    /\ pc = "serial_wait"
    /\ ~BeforeDeadline(now, deadline)
    /\ Raise("RuntimeError", "serial_timeout", None)
    /\ helper_log' = Append(helper_log, Logged("wait", 0, "timeout"))
    /\ now' = 0
    /\ deadline' = 0
    /\ UNCHANGED <<req, det, trigger_exit,
                   trigger_error, mountpoint, last_error, last_line,
                   ser_open, helper_idx, call_site, fx, serial_writes, prev,
                   uf2_written, ensure, wait, in_buffer, scan, mp_call>>

\* _require_helper_files 129-133.
RequireHelperFiles ==
    /\ pc = "require_helpers"
    /\ \E present \in [1..NumHelpers -> BOOLEAN] :
         IF \A i \in 1..NumHelpers : present[i]
         THEN /\ helper_idx' = 1
              /\ helper_log' = Append(helper_log, Logged("require", 0, "ok"))
              /\ Goto("helper_cp")
         ELSE /\ Raise("RuntimeError", "missing_helper", None)
              /\ helper_log' =
                   Append(helper_log, Logged("require", 0, "missing"))
              /\ UNCHANGED helper_idx
    /\ UNCHANGED <<req, det, trigger_exit,
                   trigger_error, mountpoint, now, deadline, last_error,
                   last_line, ser_open, call_site, fx, serial_writes, prev,
                   uf2_written, ensure, wait, in_buffer, scan, mp_call>>

\* run_mpremote 42: `result.returncode != 0 and not allow_error`.
\* Faulty variant: a nonzero exit is never raised.
RaisesOnExitNever(o, allow_error) == FALSE

RaisesOnExit(o, allow_error) == o # "zero" /\ ~allow_error

\* install_micropython_helpers 122-123 with run_mpremote 35-47: copy the next
\* file; a nonzero exit raises.
HelperCopy ==
    /\ pc = "helper_cp"
    /\ helper_idx <= NumHelpers
    /\ fx' = Bump("helper_cp")
    /\ \E o \in BridgeOutcomes, text \in BridgeTexts :
         /\ helper_log' = Append(helper_log, Logged("cp", helper_idx, o))
         /\ IF o = "norun"
            THEN /\ Raise("OSError", "mpremote_norun", None)
                 /\ helper_idx' = 0
            ELSE IF RaisesOnExit(o, FALSE)
            THEN /\ Raise("RuntimeError", "mpremote_failed",
                          FormatError(text, ~req.verbose))
                 /\ helper_idx' = 0
            ELSE /\ helper_idx' = helper_idx + 1
                 /\ Goto("helper_cp")
    /\ UNCHANGED <<req, det, trigger_exit,
                   trigger_error, mountpoint, now, deadline, last_error,
                   last_line, ser_open, call_site, serial_writes, prev,
                   uf2_written, ensure, wait, in_buffer, scan, mp_call>>

\* install_micropython_helpers 122: the loop is over; back in switch_firmware.
HelpersDone ==
    /\ pc = "helper_cp"
    /\ helper_idx > NumHelpers
    /\ Return
    /\ helper_idx' = 0
    /\ UNCHANGED <<req, trigger_exit, trigger_error, mountpoint, now,
                   deadline, last_error,
                   last_line, ser_open, call_site, fx, serial_writes, prev,
                   uf2_written, helper_log, ensure, wait, in_buffer, scan,
                   mp_call>>

(* ---------------------------- specification --------------------------- *)
Next ==
    \/ StartRun
    \/ Finish
    \/ DetectLocate
    \/ BannerOpen
    \/ BannerRead
    \/ BannerTimeout
    \/ Probe
    \/ ResolveMode
    \/ CheckShortCircuit
    \/ TriggerFromPy
    \/ TriggerFromCppOpen
    \/ TriggerFromCppWrite
    \/ TriggerSkip
    \/ TriggerUnknown
    \/ AwaitAttempt
    \/ AwaitTimeout
    \/ CopyUf2
    \/ Sync
    \/ HelpersGuard
    \/ SerialWaitPoll
    \/ SerialWaitTimeout
    \/ RequireHelperFiles
    \/ HelperCopy
    \/ HelpersDone

Spec == Init /\ [][Next]_vars

(* ------------------------------ run_mpremote -------------------------- *)
\* run_mpremote on its own, for every combination of its arguments and of
\* what the mpremote process does.  Text on stderr is made of "e" and
\* whitespace, text on stdout of "o" and whitespace.
StderrTexts == UNION {[1..n -> {"e", " "}] : n \in 0..MaxLineLen}
StdoutTexts == UNION {[1..n -> {"o", " "}] : n \in 0..MaxLineLen}

\* _format_mpremote_error 13: `(result.stderr or result.stdout or "").strip()`.
\* Faulty variant: stdout is never used.
ErrTextStderrOnly(stderr, stdout) == Strip(stderr)

ErrText(stderr, stdout) == Strip(IF stderr # <<>> THEN stderr ELSE stdout)

\* run_mpremote 43-45: `err`, the text appended to the raised message.
RaisedErr(quiet, stderr, stdout) ==
    IF quiet THEN ErrText(stderr, stdout) ELSE <<>>

InitMpremote ==
    /\ NoInvocation
    /\ \E q \in BOOLEAN, a \in BOOLEAN, o \in BridgeOutcomes,
          se \in StderrTexts, so \in StdoutTexts :
         mp_call = [NoCall EXCEPT !.quiet = q, !.allow_error = a, !.exit = o,
                                  !.stderr = se, !.stdout = so,
                                  !.outcome = "unset"]

\* run_mpremote 35-47.
RunMpremote ==
    /\ mp_call.outcome = "unset"
    /\ mp_call' =
         IF mp_call.exit = "norun"
         THEN [mp_call EXCEPT !.outcome = "oserror"]
         ELSE IF RaisesOnExit(mp_call.exit, mp_call.allow_error)
         THEN [mp_call EXCEPT
                 !.outcome = "raised",
                 !.err = RaisedErr(mp_call.quiet, mp_call.stderr,
                                   mp_call.stdout)]
         ELSE [mp_call EXCEPT !.outcome = "returned"]
    /\ UNCHANGED <<req, pc, caller, selected_mode, trigger_error, mountpoint,
                   now, deadline, last_error, last_line, ser_open,
                   helper_idx, flashed, detected, call_site, failure,
                   exit_code, message, steps, fx, serial_writes, det,
                   trigger_exit, prev, uf2_written, helper_log, ensure, wait,
                   in_buffer, scan>>

SpecMpremote == InitMpremote /\ [][RunMpremote]_vars

(* ------------------------------ properties --------------------------- *)
Has(step) == \E i \in 1..Len(steps) : steps[i] = step

\* No trigger was sent: no mpremote exec of the reboot helper, no open of
\* the port for the trigger, nothing written to the port.
NoTriggerSent ==
    fx.trigger_exec = 0 /\ fx.trigger_open = 0 /\ serial_writes = <<>>

\* The bootloader volume was neither waited for, mounted nor written.
NoVolumeAccess ==
    fx.poll = 0 /\ fx.mkdir = 0 /\ fx.mount = 0 /\ fx.copy = 0 /\ fx.sync = 0

\* C1: whenever the locator reports an RPI-RP2 volume (mounted or not),
\* detect_mode returns "bootsel" to its caller at once; the banner is not
\* read and the probe is not run, so nothing they could say matters.
C1_BootselPriority ==
    det.rp2 \in {"mounted", "unmounted"} =>
        /\ det.returned
        /\ det.result = "bootsel"
        /\ det.matched = {}
        /\ ~det.native
        /\ det.probe = "unset"
        /\ caller = "main" => (pc = "exit" /\ detected = "bootsel")
        /\ caller = "safe" => (pc = "exit" /\ detected = "bootsel")
        /\ caller = "switch" => selected_mode = "bootsel"

C1_Witness ==
    /\ det.rp2 = "unmounted"
    /\ caller = "switch"
    /\ selected_mode = "bootsel"
    /\ pc = "check"

\* C2: a run whose resolved mode equals the target, without force_flash,
\* sends no trigger, never waits for, mounts or writes the bootloader volume,
\* enters no step between ResolveMode and ProvisionHelpers, never returns
\* True, returns False when it returns, and can only fail inside helper
\* provisioning.
C2_ShortCircuit ==
    ShortCircuited =>
        /\ NoTriggerSent
        /\ NoVolumeAccess
        /\ ~Has("Trigger") /\ ~Has("AwaitBootloader") /\ ~Has("Flash")
        /\ flashed # "true"
        /\ Has("Done") => flashed = "false"
        /\ Has("Failed") => failure.at = "ProvisionHelpers"
        /\ (~HelpersRequested(Target(req), InstallHelpers(req))
              /\ pc \notin {"check", "helpers"}) => flashed = "false"

C2_Witness ==
    /\ ShortCircuited
    /\ Has("ProvisionHelpers")
    /\ fx.helper_cp = NumHelpers
    /\ flashed = "false"

\* C3: with the resolved mode equal to the target and force_flash set, once
\* the wait has returned a mountpoint and the image was there, the image has
\* been written exactly once and the run, if it returns, returns True; the
\* same call without force_flash (in particular right after such a forced
\* reflash) writes nothing and does not return True.
C3_ForceReflash ==
    /\ (/\ req.command # "detect"
        /\ selected_mode = Target(req)
        /\ req.force_flash) =>
          /\ flashed # "false"
          /\ flashed = "true" => fx.copy = 1
          /\ (mountpoint # None /\ pc # "flash" /\ failure.at # "Flash")
               => fx.copy = 1
    /\ (prev = Target(req) /\ ShortCircuited) =>
          (fx.copy = 0 /\ flashed # "true")

C3_Witness ==
    /\ prev = Target(req)
    /\ ShortCircuited
    /\ flashed = "false"
    /\ fx.copy = 0

\* C4: the image is copied at most once per run; a run that returned True
\* copied it exactly once and main reports a switch; a run that returned
\* False copied it zero times and main reports that the flash was skipped.
C4_OutcomeIsFlash ==
    /\ fx.copy <= 1
    /\ flashed = "true" => (fx.copy = 1 /\ message = "switched")
    /\ flashed = "false" => (fx.copy = 0 /\ message = "already")
    /\ flashed = None => message = None

C4_Witness == flashed = "true" /\ fx.copy = 1 /\ fx.sync = 1

\* The steps that may directly follow a step of the orchestrator.
StepSuccessors(step) ==
    CASE step = "ResolveMode" -> {"Trigger", "ProvisionHelpers", "Done", "Failed"}
      [] step = "Trigger" -> {"AwaitBootloader", "Failed"}
      [] step = "AwaitBootloader" -> {"Flash", "Failed"}
      [] step = "Flash" -> {"ProvisionHelpers", "Done", "Failed"}
      [] step = "ProvisionHelpers" -> {"Done", "Failed"}
      [] OTHER -> {}

StepOrder ==
    /\ steps # <<>> => steps[1] = "ResolveMode"
    /\ \A i \in 1..(Len(steps) - 1) : steps[i + 1] \in StepSuccessors(steps[i])

StepEffects ==
    /\ ~Has("Trigger") => NoTriggerSent
    /\ ~Has("AwaitBootloader") => (fx.poll = 0 /\ fx.mkdir = 0 /\ fx.mount = 0)
    /\ fx.copy > 0 => (mountpoint # None /\ Has("AwaitBootloader") /\ Has("Flash"))
    /\ fx.helper_cp > 0 =>
         /\ Has("ProvisionHelpers")
         /\ Has("Flash") => (fx.copy = 1 /\ fx.sync = 1)
    /\ Has("Failed") => pc = "exit"

\* After a failure nothing more is done in that run: the next thing to
\* happen is a new invocation.
FailedIsFinal ==
    Has("Failed") =>
        \/ /\ fx' = fx
           /\ serial_writes' = serial_writes
           /\ steps' = steps
           /\ mountpoint' = mountpoint
        \/ /\ fx' = NoEffects
           /\ serial_writes' = <<>>
           /\ ~Has("Failed")'

\* C5: the steps of a run occur only in the order ResolveMode, Trigger,
\* AwaitBootloader, Flash, ProvisionHelpers, Done; the image is copied only
\* after AwaitBootloader returned a mountpoint; in a flashing run helper
\* files are copied only after the copy and the sync; and after Failed the
\* run does nothing more.
C5_StepOrder == [](StepOrder /\ StepEffects) /\ [][FailedIsFinal]_vars

C5_Witness ==
    steps = <<"ResolveMode", "Trigger", "AwaitBootloader", "Flash",
              "ProvisionHelpers", "Done">>

\* C6: when mode is "auto" and detection returned no mode, ResolveMode did
\* not fail (detect_mode returned None, which became "unknown"); the run
\* then fails in Trigger with the mode-resolution error, having sent no
\* trigger (no exec of the reboot helper, no serial write) and never having
\* waited for, mounted or written the bootloader volume.
C6_UnknownFailsAtTrigger ==
    (req.mode = "auto" /\ selected_mode = "unknown") =>
        /\ det.returned /\ det.result = None
        /\ NoTriggerSent
        /\ NoVolumeAccess
        /\ ~Has("AwaitBootloader") /\ ~Has("Flash") /\ ~Has("ProvisionHelpers")
        /\ fx.helper_cp = 0
        /\ flashed = None
        /\ pc \in {"check", "trigger", "exit"}
        /\ pc = "exit" =>
             /\ failure = [exc |-> "RuntimeError", msg |-> "mode_unresolved",
                           detail |-> None, at |-> "Trigger"]
             /\ exit_code = 1

C6_Witness ==
    /\ req.mode = "auto"
    /\ selected_mode = "unknown"
    /\ failure.msg = "mode_unresolved"

\* C7: when the resolved mode is "py" and the mpremote exec of the reboot
\* helper exits nonzero, the error text is captured, the run does not fail
\* in Trigger but goes on to AwaitBootloader; once the wait returns a
\* mountpoint the run is in Flash, and a run that returns has written the
\* image once and returns True.  The captured text surfaces only in a
\* failure of AwaitBootloader.
C7_PyTriggerMayFail ==
    (selected_mode = "py" /\ trigger_exit = "nonzero") =>
        /\ trigger_error # None
        /\ failure.at # "Trigger"
        /\ Has("AwaitBootloader")
        /\ mountpoint # None => Has("Flash")
        /\ flashed # "false"
        /\ flashed = "true" => fx.copy = 1
        /\ failure.msg = "trigger_failed" => failure.at = "AwaitBootloader"

C7_Witness ==
    /\ selected_mode = "py"
    /\ trigger_exit = "nonzero"
    /\ flashed = "true"
    /\ fx.copy = 1

C9_CppTriggerSequence ==
    (/\ req.command = "to-py"
     /\ req.mode = "cpp"
     /\ Has("AwaitBootloader")) => serial_writes = LegacyCppTriggerWrites

\* The marker whose presence on a line yields mode m.
MarkerOf(m) == IF m = "py" THEN "P" ELSE "C"

\* C10: when the locator reports no volume and detect_mode returns, it
\* returns the mode of a marker on the line that ended the banner scan if
\* there was one; otherwise "py" if the probe exited zero; otherwise no
\* mode.  It returns "cpp" only if a line read held the native marker.
C10_DetectDecision ==
    /\ (det.returned /\ det.rp2 = "absent") =>
          /\ det.matched # {} =>
               (det.result \in {"py", "cpp"}
                  /\ MarkerOf(det.result) \in det.matched
                  /\ det.probe = "unset")
          /\ (det.matched = {} /\ det.probe = "zero") => det.result = "py"
          /\ (det.matched = {} /\ det.probe # "zero") => det.result = None
    /\ (det.returned /\ det.result = "cpp") => det.native
    /\ (det.returned /\ caller = "switch") =>
          selected_mode = (IF det.result = None THEN "unknown" ELSE det.result)
    /\ (det.returned /\ caller = "main") => detected = det.result

C10_Witness ==
    /\ det.returned
    /\ det.rp2 = "absent"
    /\ det.matched = {}
    /\ det.probe = "zero"
    /\ caller = "main"
    /\ detected = "py"

\* C11: in every detect_mode call the probe is run only after the locator
\* reported no bootloader volume and the banner read ended without a
\* marker; a call that saw the volume or read a marker never runs it, and a
\* call that saw the volume never opens the port to read the banner.
C11_ProbeIsFallback ==
    /\ det.probe # "unset" =>
         (det.rp2 = "absent" /\ det.banner = "nomatch" /\ det.matched = {})
    /\ pc = "probe" =>
         (det.rp2 = "absent" /\ det.banner = "nomatch" /\ det.matched = {})
    /\ det.rp2 \in {"mounted", "unmounted"} =>
         (det.banner = "unset" /\ det.probe = "unset")
    /\ det.matched # {} => (det.probe = "unset" /\ det.returned)
    /\ det.banner # "unset" => det.rp2 = "absent"
    /\ pc \in {"banner_open", "banner_loop"} => det.rp2 = "absent"
    /\ fx.probe_exec <= fx.banner_open
    /\ fx.banner_open <= fx.detect_locate

C11_Witness ==
    /\ det.rp2 = "absent"
    /\ det.banner = "nomatch"
    /\ det.probe = "nonzero"
    /\ det.returned
    /\ det.result = None

\* C12: copy_uf2 fails with the missing-image error before anything is
\* written; otherwise it writes the image once, into the mountpoint under
\* the image's own file name, and syncs after the copy and before it
\* returns; switch_firmware never returns True without that sync.
C12_FlashOrder ==
    /\ failure.msg = "uf2_not_found" =>
         (failure.at = "Flash" /\ uf2_written = <<>> /\ fx.copy = 0
            /\ fx.sync = 0 /\ flashed = None)
    /\ Len(uf2_written) = fx.copy
    /\ fx.sync <= fx.copy
    /\ uf2_written # <<>> =>
         (/\ Has("Flash")
          /\ uf2_written[1][1] = mountpoint
          /\ req.command = "to-py" => uf2_written[1][2] = "py.uf2"
          /\ req.command = "to-cpp" => uf2_written[1][2] = "cpp.uf2")
    /\ (fx.copy = 1 /\ pc # "sync") => fx.sync = 1
    /\ pc = "sync" => (fx.copy = 1 /\ fx.sync = 0)
    /\ flashed = "true" => (fx.copy = 1 /\ fx.sync = 1)

C12_Witness ==
    /\ flashed = "true"
    /\ uf2_written = <<<<"base", "cpp.uf2">>>>
    /\ fx.sync = 1

\* The entries of helper_log that are copies.
Copies == SelectSeq(helper_log, LAMBDA e : e.op = "cp")

\* helper_log is a prefix of: the serial wait, the validation, then one
\* copy per helper file in the given order; an entry follows another only
\* if that one ended well.
ProvisionOrder ==
    /\ \A i \in 1..Len(helper_log) :
         /\ i = 1 => helper_log[i] \in {Logged("wait", 0, "ok"),
                                        Logged("wait", 0, "timeout")}
         /\ i = 2 => helper_log[i] \in {Logged("require", 0, "ok"),
                                        Logged("require", 0, "missing")}
         /\ i > 2 => (helper_log[i].op = "cp" /\ helper_log[i].file = i - 2)
         /\ i < Len(helper_log) => helper_log[i].exit \in {"ok", "zero"}
    /\ Len(Copies) <= NumHelpers
    /\ Len(Copies) = fx.helper_cp

\* A step of helper provisioning that did not end well ends the run with a
\* failure raised in ProvisionHelpers.
ProvisionFailure ==
    (helper_log # <<>>
       /\ helper_log[Len(helper_log)].exit \notin {"ok", "zero"}) =>
        /\ pc = "exit"
        /\ failure.at = "ProvisionHelpers"
        /\ flashed = None
        /\ failure.msg =
             (CASE helper_log[Len(helper_log)].exit = "timeout" ->
                     "serial_timeout"
                [] helper_log[Len(helper_log)].exit = "missing" ->
                     "missing_helper"
                [] helper_log[Len(helper_log)].exit = "nonzero" ->
                     "mpremote_failed"
                [] helper_log[Len(helper_log)].exit = "norun" ->
                     "mpremote_norun")

\* C13: helper provisioning waits for the serial port first (a timeout
\* fails the run with nothing validated or copied), then validates the
\* helper files (a missing file fails the run with zero copies issued),
\* then copies the files in the given order; the first failing copy raises
\* and no later file is attempted; a run that returns after provisioning
\* copied every file.
C13_ProvisionOrder ==
    /\ ProvisionOrder
    /\ ProvisionFailure
    /\ failure.msg \in {"serial_timeout", "missing_helper"} => Copies = <<>>
    /\ helper_log # <<>> => Has("ProvisionHelpers")
    /\ pc = "helper_cp" => Len(Copies) = helper_idx - 1
    /\ (Has("ProvisionHelpers") /\ Has("Done")) =>
         (/\ Len(Copies) = NumHelpers
          /\ \A i \in 1..NumHelpers : Copies[i].exit = "zero")

C13_Witness ==
    /\ Len(helper_log) = 3
    /\ helper_log[3] = Logged("cp", 1, "nonzero")
    /\ failure.msg = "mpremote_failed"
    /\ failure.at = "ProvisionHelpers"

\* C14: an ensure_rpi_rp2_mounted call that found the volume already
\* mounted returns that mountpoint, calls no mkdir and issues no mount; a
\* call issues a mount (one, against the device name it found) and creates
\* the fallback directory only when the volume is present and unmounted.
C14_NeverRemounts ==
    /\ ensure.rp2 = "mounted" =>
         (/\ ensure.result = "auto"
          /\ mountpoint = "auto"
          /\ ~ensure.mkdir
          /\ ensure.mounts = 0
          /\ ensure.mount_dev = None
          /\ ensure.dir_after = ensure.dir_before
          /\ fx.poll = 1 => (fx.mkdir = 0 /\ fx.mount = 0))
    /\ (ensure.mkdir \/ ensure.mounts > 0) => ensure.rp2 = "unmounted"
    /\ ensure.mounts <= 1
    /\ ensure.mounts = 1 =>
         (ensure.mkdir /\ ensure.name # None
            /\ ensure.mount_dev = ensure.name)
    /\ ensure.result = "base" => (ensure.mounts = 1 /\ mountpoint = "base")
    /\ fx.mount <= fx.mkdir
    /\ fx.mkdir <= fx.poll

C14_Witness ==
    /\ ensure.rp2 = "mounted"
    /\ ensure.dir_before = FALSE
    /\ mountpoint = "auto"
    /\ pc = "flash"
    /\ fx.poll = 2

\* C15: an ensure_rpi_rp2_mounted call whose locator found no RPI-RP2
\* entry raises the not-found error, not a mount failure, whether or not
\* the fallback directory exists, and neither creates the directory nor
\* issues a mount.
C15_NotFoundKind ==
    ensure.rp2 = "absent" =>
        /\ ensure.result = "rp2_not_found"
        /\ ~ensure.mkdir
        /\ ensure.mounts = 0
        /\ ensure.mount_dev = None
        /\ ensure.dir_after = ensure.dir_before
        /\ mountpoint = None
        /\ pc = "await_loop" => last_error = "rp2_not_found"

C15_Witness ==
    /\ ensure.rp2 = "absent"
    /\ ~ensure.dir_before
    /\ ~ensure.dir_after
    /\ ensure.result = "rp2_not_found"
    /\ pc = "await_loop"

\* The messages a failed ensure_rpi_rp2_mounted attempt is retried with.
AttemptErrors == {"rp2_not_found", "lsblk_failed", "mount_failed"}

\* C16: while the wait is polling, last_error is the message of the last
\* failed attempt; when the deadline passes after at least one attempt, the
\* wait raises that message (not found if the last attempt saw no volume,
\* the mount error if it saw one it could not mount), whatever earlier
\* attempts failed with, and switch_firmware surfaces it unless a trigger
\* error was captured.  The generic message is raised only by a wait that
\* made no attempt at all.
C16_LastErrorSurfaced ==
    /\ (pc = "await_loop" /\ fx.poll > 0) =>
         (last_error = ensure.result /\ last_error \in AttemptErrors)
    /\ (pc = "await_loop" /\ fx.poll = 0) => last_error = None
    /\ wait.raised # None =>
         /\ pc = "exit"
         /\ failure.at = "AwaitBootloader"
         /\ failure.exc = "RuntimeError"
         /\ fx.poll > 0 =>
              (/\ wait.raised = ensure.result
               /\ wait.raised \in AttemptErrors
               /\ ensure.rp2 = "absent" => wait.raised = "rp2_not_found"
               /\ ensure.rp2 = "unmounted" => wait.raised = "mount_failed"
               /\ ensure.rp2 = "nonzero" => wait.raised = "lsblk_failed")
         /\ wait.raised = "timed_out" <=> fx.poll = 0
         /\ trigger_error = None =>
              (failure.msg = wait.raised /\ failure.detail = None)

C16_Witness ==
    /\ wait.first_err = "rp2_not_found"
    /\ wait.raised = "mount_failed"
    /\ ensure.rp2 = "unmounted"
    /\ failure.msg = "mount_failed"

\* C17: a wait called with timeout T in which every attempt fails raises
\* its timeout failure no earlier than T and no later than T plus one poll
\* interval after the call started; while it polls, the deadline is T after
\* the start and is not passed by more than one interval.
C17_WaitTiming ==
    /\ wait.raised # None =>
         (/\ wait.timeout <= wait.at
          /\ wait.at <= wait.timeout + PollInterval
          /\ wait.at = fx.poll * PollInterval)
    /\ pc = "await_loop" =>
         (/\ deadline = wait.timeout
          /\ now < wait.timeout + PollInterval
          /\ now = fx.poll * PollInterval)

C17_Witness ==
    /\ wait.raised = "rp2_not_found"
    /\ wait.first_err = "lsblk_failed"
    /\ wait.timeout + 1 = MaxWait
    /\ wait.at = MaxWait

\* C18: the banner scan ends at the first line read that holds a marker
\* anywhere in its text and returns that line's mode (the managed-runtime
\* mode if the line holds that marker); no line holding a marker is ever
\* read and passed over, and once a line has matched the port is closed and
\* no further line is read.
C18_FirstMatchWins ==
    /\ scan.skipped = {}
    /\ det.banner = "matched" =>
         (/\ det.matched # {}
          /\ det.returned
          /\ det.result = (IF "P" \in det.matched THEN "py" ELSE "cpp")
          /\ pc \notin {"banner_open", "banner_loop", "probe"}
          /\ pc \in {"check", "exit"} => ~ser_open
          /\ det.probe = "unset")
    /\ det.banner = "nomatch" => (det.matched = {} /\ ~det.native)
    /\ pc = "banner_loop" => (det.matched = {} /\ ser_open)

C18_Witness ==
    /\ det.banner = "matched"
    /\ det.matched = {"P", "C"}
    /\ det.result = "py"
    /\ scan.nonempty # <<>>

\* C19 (as claimed): when the scan ends without a marker, the line
\* read_banner returns is the last line it read that was not empty after
\* strip(), or the empty string if it read none.
C19_LastNonEmptyLine ==
    (pc = "probe" /\ det.banner = "nomatch") => last_line = scan.nonempty

\* C20: input that was buffered when the port was opened is discarded
\* before the scan: no line of it is ever read, so the mode and the last
\* line come only from lines received after the discard.
C20_StaleDiscarded ==
    /\ ~scan.stale_read
    /\ pc = "banner_loop" => in_buffer = <<>>
    /\ (scan.stale # {} /\ det.banner = "nomatch") =>
         (det.matched = {} /\ det.result = None)

C20_Witness ==
    /\ scan.stale = {"P"}
    /\ det.banner = "matched"
    /\ det.result = "cpp"
    /\ det.matched = {"C"}

\* C21 (as claimed): the probe never raises: once the bridge has answered
\* the probe, detect_mode has returned, with the managed-runtime mode
\* exactly when the exec exited with status zero and with no mode for a
\* nonzero exit and for a bridge tool that could not be run.
C21_ProbeNeverRaises ==
    det.probe # "unset" =>
        /\ det.returned
        /\ det.result = (IF det.probe = "zero" THEN "py" ELSE None)

\* C22: the post-switch detection of a to-py command never raises: it ends
\* with the value detect_mode returned when that returned, and with no mode
\* when the locator, the serial open or the probe failed; either way no
\* failure is recorded, the outcome and the message of the switch that
\* succeeded are unchanged and main exits with code 0.
C22_SafeDetection ==
    caller = "safe" =>
        /\ req.command = "to-py"
        /\ CurrentStep = "Done"
        /\ failure = NoFailure
        /\ flashed \in {"true", "false"}
        /\ message = (IF flashed = "true" THEN "switched" ELSE "already")
        /\ exit_code = 0
        /\ pc = "exit" =>
             detected = (IF det.returned THEN det.result ELSE None)
        /\ (\/ det.rp2 \in {"nonzero", "norun"}
            \/ det.banner \in {"failed", "broken"}
            \/ det.probe = "norun") =>
             (pc = "exit" /\ ~det.returned /\ detected = None)

C22_Witness ==
    /\ caller = "safe"
    /\ pc = "exit"
    /\ det.probe = "norun"
    /\ detected = None
    /\ flashed = "true"
    /\ exit_code = 0

\* C23: a run_mpremote call whose process ran returns on exit zero; on a
\* nonzero exit it raises when allow_error is false and returns, with the
\* result that carries the exit code, when allow_error is true; the raised
\* message holds no error text unless quiet is set, and with quiet set it
\* holds the stripped stderr text if that is not empty and the stripped
\* stdout text if stderr is empty.
C23_RunMpremote ==
    mp_call.outcome \in {"returned", "raised"} =>
        /\ mp_call.exit \in {"zero", "nonzero"}
        /\ mp_call.exit = "zero" => mp_call.outcome = "returned"
        /\ (mp_call.exit = "nonzero" /\ ~mp_call.allow_error)
             => mp_call.outcome = "raised"
        /\ (mp_call.exit = "nonzero" /\ mp_call.allow_error)
             => mp_call.outcome = "returned"
        /\ mp_call.outcome = "returned" => mp_call.err = <<>>
        /\ mp_call.outcome = "raised" =>
             /\ ~mp_call.quiet => mp_call.err = <<>>
             /\ (mp_call.quiet /\ Contains(mp_call.stderr, "e"))
                  => mp_call.err = Strip(mp_call.stderr)
             /\ (mp_call.quiet /\ mp_call.stderr = <<>>)
                  => mp_call.err = Strip(mp_call.stdout)

C23_Witness ==
    /\ mp_call.outcome = "raised"
    /\ mp_call.quiet
    /\ mp_call.stderr = <<>>
    /\ mp_call.stdout = <<" ", "o">>
    /\ mp_call.err = <<"o">>

\* C24 (as claimed): every wait loop (bootloader-volume wait, serial-port
\* wait, banner scan) has left by its deadline: while a loop runs the time
\* since its entry has not passed the timeout the deadline was computed
\* from, and a wait that raises on its deadline raises no later than it.
C24_BoundedWaiting ==
    /\ pc \in {"await_loop", "serial_wait", "banner_loop"} => now <= deadline
    /\ pc = "await_loop" => deadline = wait.timeout
    /\ wait.raised # None => wait.at <= wait.timeout

\* C25: the serial port is open only inside one banner read or one trigger
\* write: it is open throughout the banner scan and between the trigger's
\* open and its write, never opened while open, and closed in every other
\* state, however the sub-operation was left; so it is closed whenever the
\* bridge tool runs (probe, managed-runtime trigger, helper copy) and
\* whenever the invocation is over.
C25_SerialScoped ==
    /\ ser_open <=> pc \in {"banner_loop", "cpp_write"}
    /\ pc \in {"banner_open", "probe", "trigger", "helper_cp", "exit", "idle"}
         => ~ser_open

C25_Witness ==
    /\ pc = "exit"
    /\ failure.msg = "write_failed"
    /\ fx.trigger_open = 1
    /\ ~ser_open

\* C26 (as claimed): the bootloader-volume wait surfaces an error only when
\* its deadline is exhausted: a run that failed in AwaitBootloader failed by
\* the wait raising at or after its deadline, whatever the failed attempts
\* were (device not found, enumeration failure, mount failure); and an
\* attempt that succeeded ended the wait with its mountpoint, however many
\* attempts had failed before.
C26_TransparentRetry ==
    /\ failure.at = "AwaitBootloader" =>
         (wait.raised # None /\ wait.at >= wait.timeout)
    /\ ensure.result \in {"auto", "base"} =>
         (pc = "flash" /\ mountpoint = ensure.result /\ failure = NoFailure)

\* C27: switch_firmware calls detect_mode exactly when the mode override is
\* "auto".  With an explicit override the run makes no detection step (no
\* locator call for detection, no banner read, no probe), its resolved mode
\* is the override as given, and the trigger it sends is the one the
\* override selects; with "auto" the run calls the locator for detection
\* before it does anything else.
C27_DetectOnlyOnAuto ==
    /\ (req.command # "detect" /\ req.mode # "auto" /\ caller # "safe") =>
         /\ fx.detect_locate = 0 /\ fx.banner_open = 0 /\ fx.probe_exec = 0
         /\ det = NoDetect
         /\ pc # "resolve" => selected_mode = req.mode
         /\ fx.trigger_exec > 0 => req.mode = "py"
         /\ fx.trigger_open > 0 => req.mode = "cpp"
         /\ (pc \in {"await_loop", "flash"} /\ req.mode = "bootsel")
              => NoTriggerSent
         /\ failure.msg = "mode_unresolved" => FALSE
    /\ (/\ req.command # "detect"
        /\ req.mode = "auto"
        /\ pc \notin {"resolve", "detect_locate"}) =>
         fx.detect_locate >= 1

C27_Witness ==
    /\ req.mode = "cpp"
    /\ req.command = "to-py"
    /\ pc = "flash"
    /\ serial_writes # <<>>
    /\ fx.detect_locate = 0

\* C28 (as claimed): a locator call fails with the error kind the wait
\* retries, both when lsblk exits nonzero and when lsblk cannot be run: in
\* detect_mode the failure that reaches the caller is a RuntimeError, and in
\* the bootloader-volume wait the attempt is retried, so that the run goes
\* on waiting or fails by the wait's own deadline.
C28_LocatorFailureKind ==
    /\ (det.rp2 \in {"nonzero", "norun"} /\ caller # "safe") =>
         (pc = "exit" /\ failure.exc = "RuntimeError")
    /\ ensure.rp2 \in {"nonzero", "norun"} =>
         \/ pc = "await_loop" /\ last_error = "lsblk_failed"
         \/ pc = "exit" /\ wait.raised # None

\* C29: the image is looked for only in Flash.  A run that failed because
\* the image is missing failed there with the missing-file error, after
\* ResolveMode, Trigger and AwaitBootloader: it sent the trigger its
\* resolved mode selects (the exec for the managed runtime, the serial write
\* for the native runtime), the wait returned a mountpoint, so the device
\* is in bootloader mode, and nothing was written to the volume; the run
\* ended Failed without returning.
C29_ImageCheckInFlash ==
    failure.msg = "uf2_not_found" =>
        /\ failure.exc = "RuntimeError"
        /\ failure.at = "Flash"
        /\ steps = <<"ResolveMode", "Trigger", "AwaitBootloader", "Flash",
                     "Failed">>
        /\ ~ShortCircuit(selected_mode, Target(req), req.force_flash)
        /\ selected_mode = "py" => fx.trigger_exec = 1
        /\ selected_mode = "cpp" =>
             (fx.trigger_open = 1 /\ serial_writes = CppTriggerWrites)
        /\ fx.poll >= 1
        /\ mountpoint # None
        /\ uf2_written = <<>> /\ fx.copy = 0 /\ fx.sync = 0
        /\ fx.helper_cp = 0 /\ helper_log = <<>>
        /\ flashed = None
        /\ pc = "exit" /\ exit_code = 1

C29_Witness ==
    /\ failure.msg = "uf2_not_found"
    /\ selected_mode = "cpp"
    /\ req.mode = "auto"
    /\ serial_writes = CppTriggerWrites
    /\ mountpoint = "base"

\* The record of the bootloader-volume wait is that of this run's wait: the
\* wait is running, has just returned, or has failed the run.
WaitLive ==
    \/ pc \in {"await_loop", "flash"}
    \/ pc = "exit" /\ failure.at = "AwaitBootloader"

\* C30: a bootloader-volume wait whose timeout is positive makes at least
\* one ensure_rpi_rp2_mounted attempt before it ends; a wait whose timeout
\* is zero or negative makes none, whatever lsblk would have answered, and
\* fails at once with the generic timed-out message.
C30_ZeroTimeoutEdge ==
    /\ (WaitLive /\ wait.timeout <= 0) =>
         /\ fx.poll = 0 /\ fx.mount = 0
         /\ ensure = NoEnsure
         /\ wait.first_err = None
         /\ mountpoint = None
         /\ pc \in {"await_loop", "exit"}
         /\ pc = "exit" =>
              (/\ wait.raised = "timed_out"
               /\ wait.at = 0
               /\ failure.exc = "RuntimeError"
               /\ failure.at = "AwaitBootloader")
    /\ (WaitLive /\ wait.timeout > 0 /\ pc # "await_loop") =>
         (fx.poll >= 1 /\ ensure.result # None)
    /\ (wait.raised = "timed_out" /\ wait.first_err = None) =>
         wait.timeout <= 0

C30_Witness ==
    /\ pc = "exit"
    /\ wait.raised = "timed_out"
    /\ wait.timeout = 0
    /\ fx.poll = 0

\* C31: no rollback after Flash.  When helper provisioning fails after the
\* image was copied (the serial port did not reappear, a helper file is
\* missing, or a bridge copy failed), the run ends Failed in
\* ProvisionHelpers with exit code 1; switch_firmware has returned nothing,
\* main has reported no switch and the post-switch detection has not run,
\* while the one image write made to the bootloader volume, and its sync,
\* stand as they were made.
C31_NoRollbackAfterFlash ==
    /\ (fx.copy > 0 /\ failure.at = "ProvisionHelpers") =>
         /\ pc = "exit" /\ exit_code = 1
         /\ failure.msg \in {"serial_timeout", "missing_helper",
                              "mpremote_failed", "mpremote_norun"}
         /\ flashed = None /\ message = None
         /\ detected = "pending"
         /\ ~Has("Done")
         /\ SubSeq(steps, Len(steps) - 2, Len(steps)) =
              <<"Flash", "ProvisionHelpers", "Failed">>
         /\ fx.copy = 1 /\ fx.sync = 1
         /\ uf2_written = <<Dest(mountpoint, Uf2Path(req))>>
    /\ call_site = "flash" =>
         uf2_written = <<Dest(mountpoint, Uf2Path(req))>>

C31_Witness ==
    /\ pc = "exit"
    /\ failure.msg = "serial_timeout"
    /\ failure.at = "ProvisionHelpers"
    /\ uf2_written = <<<<"base", "py.uf2">>>>
    /\ exit_code = 1

=============================================================================
